---- MODULE Spec2Model ----
(***************************************************************************)
(* Model of imouapi/device.py: the ImouDevice lifecycle (async_initialize, *)
(* async_get_data, set_enabled, set_name) and ImouDiscoverService.         *)
(*                                                                         *)
(* Strings are TLA+ strings; str.split and str.lower are computed          *)
(* character by character.  A coroutine is cut at its awaits: one action   *)
(* runs the code from one await to the next.  The API client and the       *)
(* entity objects are collaborators: their calls return (the response is   *)
(* an input), and the exceptions modelled are the ones device.py raises.   *)
(* One flow of control: a call starts only when no other call is pending.  *)
(***************************************************************************)
EXTENDS Integers, Sequences, FiniteSets, TLC

VARIABLES device, pc, op, calls, inflight, result, cursor,
          disc_pc, disc_list, disc_idx, disc_devices, disc_order,
          disc_inflight, disc_result

vars == <<device, pc, op, calls, inflight, result, cursor,
          disc_pc, disc_list, disc_idx, disc_devices, disc_order,
          disc_inflight, disc_result>>

device_vars == <<device, pc, op, calls, inflight, result, cursor>>

disc_vars == <<disc_pc, disc_list, disc_idx, disc_devices, disc_order,
               disc_inflight, disc_result>>

----------------------------------------------------------------------------
(* Bounds *)

\* successful async_initialize runs allowed on one device
MaxInitialize == 2

\* longest deviceList of a deviceBaseList response
MaxDevices == 3

----------------------------------------------------------------------------
(* Strings *)

UpperCase == "ABCDEFGHIJKLMNOPQRSTUVWXYZ"

LowerCase == "abcdefghijklmnopqrstuvwxyz"

\* the upper-case letters, each with its lower-case letter
lower_table ==
    [c \in {SubSeq(UpperCase, i, i) : i \in 1..Len(UpperCase)} |->
        LET i == CHOOSE k \in 1..Len(UpperCase) : SubSeq(UpperCase, k, k) = c
        IN  SubSeq(LowerCase, i, i)]

\* str.lower() of a one-character string
lower_char(c) == IF c \in DOMAIN lower_table THEN lower_table[c] ELSE c

RECURSIVE lower(_)
\* str.lower()
lower(s) == IF Len(s) = 0 THEN "" ELSE lower_char(Head(s)) \o lower(Tail(s))

RECURSIVE split(_, _)
\* str.split(sep) for a one-character separator: "" gives [""], and an
\* empty token stands between two adjacent separators
split(s, sep) ==
    IF \E i \in 1..Len(s) : SubSeq(s, i, i) = sep
    THEN LET i == CHOOSE k \in 1..Len(s) :
                      /\ SubSeq(s, k, k) = sep
                      /\ \A j \in 1..(k - 1) : SubSeq(s, j, j) # sep
         IN  <<(IF i = 1 THEN "" ELSE SubSeq(s, 1, i - 1))>>
             \o split((IF i = Len(s) THEN "" ELSE SubSeq(s, i + 1, Len(s))), sep)
    ELSE <<s>>

\* x in list
Contains(list, x) == \E i \in 1..Len(list) : list[i] = x

----------------------------------------------------------------------------
(* const.py: the known-switch table (keys of IMOU_SWITCHES, in order) *)

IMOU_SWITCHES_keys == <<"motionDetect", "closeCamera", "whiteLight">>

----------------------------------------------------------------------------
(* ImouDevice *)

\* ImouDevice.__init__
ImouDevice(device_id) ==
    [ _device_id      |-> device_id,
      _catalog        |-> "N.A.",
      _firmware       |-> "N.A.",
      _name           |-> "N.A.",
      _given_name     |-> "",
      _device_model   |-> "N.A.",
      _manufacturer   |-> "Imou",
      _online         |-> FALSE,
      _capabilities   |-> <<>>,
      _switches       |-> <<>>,
      _sensor_instances |-> [switch |-> <<>>, sensor |-> <<>>, binary_sensor |-> <<>>],
      _initialized    |-> FALSE,
      _enabled        |-> TRUE ]

\* ImouDevice.get_name
get_name(d) == IF d._given_name # "" THEN d._given_name ELSE d._name

\* ImouSwitch / ImouSensor / ImouBinarySensor constructor arguments
\* (api_client is the one shared client and is left out)
ImouEntity(device_id, device_name, sensor_type) ==
    [device_id |-> device_id, device_name |-> device_name, name |-> sensor_type]

\* get_all_sensors with the sensor list ahead of the switch list
EntityOrder_sensor_first(d) ==
    [i \in 1..Len(d._sensor_instances.sensor) |-> <<"sensor", i>>]
    \o [i \in 1..Len(d._sensor_instances.switch) |-> <<"switch", i>>]
    \o [i \in 1..Len(d._sensor_instances.binary_sensor) |-> <<"binary_sensor", i>>]

\* ImouDevice.get_all_sensors, as (platform, index) pairs: the platforms in
\* the insertion order of the _sensor_instances dict, each list in order
EntityOrder(d) ==
    [i \in 1..Len(d._sensor_instances.switch) |-> <<"switch", i>>]
    \o [i \in 1..Len(d._sensor_instances.sensor) |-> <<"sensor", i>>]
    \o [i \in 1..Len(d._sensor_instances.binary_sensor) |-> <<"binary_sensor", i>>]

\* set_enabled that also drops the initialized flag
set_enabled_body_reset(d, value) == [d EXCEPT !._enabled = value, !._initialized = FALSE]

\* ImouDevice.set_enabled
set_enabled_body(d, value) == [d EXCEPT !._enabled = value]

\* ImouDevice.set_name
set_name_body(d, given_name) == [d EXCEPT !._given_name = given_name]

\* async_initialize without the "motionDetect" workaround
add_motionDetect_skipped(capabilities) == capabilities

\* the "motionDetect" workaround of async_initialize
add_motionDetect(capabilities) ==
    IF ~Contains(capabilities, "motionDetect")
    THEN Append(capabilities, "motionDetect")
    ELSE capabilities

RECURSIVE match_capability_no_break(_, _, _)
\* the inner loop without its break: one append per matching capability
match_capability_no_break(switch_type, capabilities, i) ==
    IF i > Len(capabilities) THEN <<>>
    ELSE IF lower(switch_type) = lower(capabilities[i])
         THEN <<switch_type>> \o match_capability_no_break(switch_type, capabilities, i + 1)
         ELSE match_capability_no_break(switch_type, capabilities, i + 1)

RECURSIVE match_capability(_, _, _)
\* the inner loop of async_initialize for one switch_type, from capability
\* number i on: the switch types it appends (it stops at the first match)
match_capability(switch_type, capabilities, i) ==
    IF i > Len(capabilities) THEN <<>>
    ELSE IF lower(switch_type) = lower(capabilities[i])
         THEN <<switch_type>>
         ELSE match_capability(switch_type, capabilities, i + 1)

RECURSIVE add_switches(_, _)
\* the outer loop of async_initialize over the switch types from number k
\* on: all switch types appended, in order
add_switches(capabilities, k) ==
    IF k > Len(IMOU_SWITCHES_keys) THEN <<>>
    ELSE match_capability(IMOU_SWITCHES_keys[k], capabilities, 1)
         \o add_switches(capabilities, k + 1)

\* the device_array check accepting any non-empty deviceList
device_array_invalid_empty_only(device_array) ==
    \/ "deviceList" \notin DOMAIN device_array
    \/ Len(device_array["deviceList"]) = 0

\* the device_array check at the head of async_initialize
device_array_invalid(device_array) ==
    \/ "deviceList" \notin DOMAIN device_array
    \/ Len(device_array["deviceList"]) # 1

\* the part of async_initialize after the parsing of the metadata: the
\* capabilities, the switches and the two fixed sensors
initialize_entities(d, ability) ==
    LET caps  == add_motionDetect(split(ability, ","))
        added == add_switches(caps, 1)
        sw    == [i \in 1..Len(added) |->
                      ImouEntity(d._device_id, get_name(d), added[i])]
    IN  [d EXCEPT
           !._capabilities = caps,
           !._switches = @ \o added,
           !._sensor_instances =
               [switch |-> @.switch \o sw,
                sensor |-> Append(@.sensor,
                              ImouEntity(d._device_id, get_name(d), "lastAlarm")),
                binary_sensor |-> Append(@.binary_sensor,
                              ImouEntity(d._device_id, get_name(d), "online"))],
           !._initialized = TRUE]

\* the try block of async_initialize on device_data: the assignments run in
\* order and the first missing key raises, keeping what was assigned so far
initialize_parse(d, device_data) ==
    LET has(k) == k \in DOMAIN device_data
        d1 == [d  EXCEPT !._catalog = device_data["catalog"]]
        d2 == [d1 EXCEPT !._firmware = device_data["version"]]
        d3 == [d2 EXCEPT !._name = device_data["name"]]
        d4 == [d3 EXCEPT !._device_model = device_data["deviceModel"]]
        d5 == [d4 EXCEPT !._online = (device_data["status"] = "online")]
    IN  IF ~has("catalog") THEN [dev |-> d, raised |-> "InvalidResponse"]
        ELSE IF ~has("version") THEN [dev |-> d1, raised |-> "InvalidResponse"]
        ELSE IF ~has("name") THEN [dev |-> d2, raised |-> "InvalidResponse"]
        ELSE IF ~has("deviceModel") THEN [dev |-> d3, raised |-> "InvalidResponse"]
        ELSE IF ~has("status") THEN [dev |-> d4, raised |-> "InvalidResponse"]
        ELSE IF ~has("ability") THEN [dev |-> d5, raised |-> "InvalidResponse"]
        ELSE [dev |-> initialize_entities(d5, device_data["ability"]),
              raised |-> "no"]

\* async_initialize comparing the entry's deviceId with the device's own
async_initialize_body_checks_id(d, device_array) ==
    IF \/ device_array_invalid(device_array)
       \/ "deviceId" \notin DOMAIN device_array["deviceList"][1]
       \/ device_array["deviceList"][1]["deviceId"] # d._device_id
    THEN [dev |-> d, raised |-> "InvalidResponse"]
    ELSE initialize_parse(d, device_array["deviceList"][1])

\* ImouDevice.async_initialize from the return of deviceBaseDetailList on:
\* the device after the call and the exception raised ("no" for none)
async_initialize_body(d, device_array) ==
    IF device_array_invalid(device_array)
    THEN [dev |-> d, raised |-> "InvalidResponse"]
    ELSE initialize_parse(d, device_array["deviceList"][1])

----------------------------------------------------------------------------
(* Inputs: what the API client returns and what the caller passes *)

DeviceId == "IPC1"

OtherDeviceId == "IPC2"

Names == {"cam1", "cam2"}

GivenNames == {"", "Porch"}

Abilities == {"", "WLAN", "MOTIONDETECT", "motionDetect,closeCamera",
              "CloseCamera,closecamera,WLAN", "motionDetectV2,,whitelight"}

\* one entry of the deviceList of deviceBaseDetailList
DeviceData(id, name, status, ability) ==
    [deviceId |-> id, catalog |-> "IPC", version |-> "2.680", name |-> name,
     deviceModel |-> "IPC-C22E", status |-> status, ability |-> ability]

\* dict without key k
Without(dict, k) == [x \in (DOMAIN dict) \ {k} |-> dict[x]]

FullEntries ==
    {DeviceData(DeviceId, n, st, ab) : n \in Names, st \in {"online", "offline"},
                                       ab \in Abilities}

\* complete entries that describe another device
ForeignEntries ==
    {DeviceData(OtherDeviceId, n, "offline", ab) : n \in Names, ab \in {"", "WLAN"}}

PartialEntries ==
    {Without(DeviceData(DeviceId, "cam2", "online", "motionDetect,closeCamera"), k) :
        k \in {"catalog", "version", "name", "deviceModel", "status", "ability"}}

PairEntries ==
    {DeviceData(id, "cam1", "online", "motionDetect,closeCamera") :
        id \in {DeviceId, OtherDeviceId}}

\* responses of deviceBaseDetailList: no deviceList, or a deviceList of zero,
\* one or two entries
DetailResponses ==
    {[code |-> "0"]}
    \cup {[deviceList |-> <<>>]}
    \cup {[deviceList |-> <<e>>] :
              e \in FullEntries \cup ForeignEntries \cup PartialEntries}
    \cup {[deviceList |-> <<e1, e2>>] : e1 \in PairEntries, e2 \in PairEntries}

\* responses of deviceOnline
OnlineResponses ==
    {[onLine |-> "1"], [onLine |-> "0"], [onLine |-> "2"], [code |-> "0"]}

NoResponse == [none |-> "none"]

----------------------------------------------------------------------------
(* The calls on one device.  calls is the list of collaborator calls the   *)
(* current top-level call has made so far, with what deviceOnline          *)
(* returned; inflight is the last response that call received; result is   *)
(* what the last top-level call returned or raised.                        *)

Request(api) == [call |-> api]

Returned(api, data) == [call |-> api, returned |-> data]

UpdateStart(e) == [call |-> "async_update", platform |-> e[1], index |-> e[2]]

UpdateEnd(e) == [call |-> "async_update returned", platform |-> e[1], index |-> e[2]]

\* the caller calls set_enabled(value)
set_enabled(value) ==
    /\ pc = "idle"
    /\ device' = set_enabled_body(device, value)
    /\ op' = "set_enabled"
    /\ calls' = <<>>
    /\ result' = "None"
    /\ inflight' = NoResponse
    /\ UNCHANGED <<pc, cursor>>
    /\ UNCHANGED disc_vars

\* the caller calls set_name(given_name)
set_name(given_name) ==
    /\ pc = "idle"
    /\ device' = set_name_body(device, given_name)
    /\ op' = "set_name"
    /\ calls' = <<>>
    /\ result' = "None"
    /\ inflight' = NoResponse
    /\ UNCHANGED <<pc, cursor>>
    /\ UNCHANGED disc_vars

\* the caller calls async_initialize: it runs up to the await of
\* deviceBaseDetailList
async_initialize_call ==
    /\ pc = "idle"
    /\ Len(device._sensor_instances.sensor) < MaxInitialize
    /\ op' = "async_initialize"
    /\ calls' = <<Request("deviceBaseDetailList")>>
    /\ result' = "pending"
    /\ pc' = "await deviceBaseDetailList"
    /\ inflight' = NoResponse
    /\ UNCHANGED <<device, cursor>>
    /\ UNCHANGED disc_vars

\* the API client returns device_array
deviceBaseDetailList_return(device_array) ==
    /\ pc = "await deviceBaseDetailList"
    /\ inflight' = device_array
    /\ pc' = "async_initialize"
    /\ UNCHANGED <<device, op, calls, result, cursor>>
    /\ UNCHANGED disc_vars

\* what async_get_data does after async_initialize or the initialized test:
\* it calls deviceOnline and awaits it
get_data_request_online(d, made) ==
    /\ device' = d
    /\ calls' = Append(made, Request("deviceOnline"))
    /\ pc' = "await deviceOnline"
    /\ result' = "pending"

\* async_initialize resumes with the response, called directly or from
\* async_get_data, which then goes on to the deviceOnline call
async_initialize_resume ==
    /\ pc = "async_initialize"
    /\ LET r == async_initialize_body(device, inflight)
       IN  IF r.raised # "no"
           THEN /\ device' = r.dev
                /\ result' = r.raised
                /\ pc' = "idle"
                /\ calls' = calls
           ELSE IF op = "async_get_data"
           THEN get_data_request_online(r.dev, calls)
           ELSE /\ device' = r.dev
                /\ result' = "None"
                /\ pc' = "idle"
                /\ calls' = calls
    /\ UNCHANGED inflight
    /\ UNCHANGED <<op, cursor>>
    /\ UNCHANGED disc_vars

\* the head of async_get_data without the enabled test
get_data_first_ungated(d) ==
    IF ~d._initialized THEN "async_initialize" ELSE "deviceOnline"

\* the head of async_get_data initializing on every call
get_data_first_eager(d) ==
    IF ~d._enabled THEN "return False" ELSE "async_initialize"

\* the head of async_get_data: what the call does first
get_data_first(d) ==
    IF ~d._enabled THEN "return False"
    ELSE IF ~d._initialized THEN "async_initialize"
    ELSE "deviceOnline"

\* the caller calls async_get_data: it returns False when disabled, else it
\* runs up to its first await
async_get_data_call ==
    /\ pc = "idle"
    /\ get_data_first(device) = "async_initialize"
          => Len(device._sensor_instances.sensor) < MaxInitialize
    /\ op' = "async_get_data"
    /\ CASE get_data_first(device) = "return False" ->
              /\ result' = "False"
              /\ calls' = <<>>
              /\ UNCHANGED <<device, pc>>
         [] get_data_first(device) = "async_initialize" ->
              /\ calls' = <<Request("deviceBaseDetailList")>>
              /\ result' = "pending"
              /\ pc' = "await deviceBaseDetailList"
              /\ UNCHANGED device
         [] get_data_first(device) = "deviceOnline" ->
              get_data_request_online(device, <<>>)
    /\ inflight' = NoResponse
    /\ UNCHANGED cursor
    /\ UNCHANGED disc_vars

\* the API client returns data
deviceOnline_return(data) ==
    /\ pc = "await deviceOnline"
    /\ inflight' = data
    /\ calls' = Append(calls, Returned("deviceOnline", data))
    /\ pc' = "async_get_data"
    /\ UNCHANGED <<device, op, result, cursor>>
    /\ UNCHANGED disc_vars

\* async_get_data resumes with data: the onLine test, the online flag, and
\* the first entity's async_update when there is one to run
async_get_data_resume ==
    /\ pc = "async_get_data"
    /\ UNCHANGED inflight
    /\ IF "onLine" \notin DOMAIN inflight
       THEN /\ result' = "InvalidResponse"
            /\ pc' = "idle"
            /\ UNCHANGED <<device, calls, cursor>>
       ELSE LET d == [device EXCEPT !._online = (inflight["onLine"] = "1")]
                order == EntityOrder(d)
            IN  /\ device' = d
                /\ IF d._online /\ Len(order) > 0
                   THEN /\ cursor' = 1
                        /\ calls' = Append(calls, UpdateStart(order[1]))
                        /\ pc' = "await async_update"
                        /\ UNCHANGED result
                   ELSE /\ result' = "True"
                        /\ pc' = "idle"
                        /\ UNCHANGED <<calls, cursor>>
    /\ UNCHANGED op
    /\ UNCHANGED disc_vars

\* an entity's async_update returns: the loops go on to the next entity, or
\* async_get_data returns True after the last one
async_update_return ==
    /\ pc = "await async_update"
    /\ LET order == EntityOrder(device)
           done == Append(calls, UpdateEnd(order[cursor]))
       IN  IF cursor < Len(order)
           THEN /\ cursor' = cursor + 1
                /\ calls' = Append(done, UpdateStart(order[cursor + 1]))
                /\ UNCHANGED <<pc, result>>
           ELSE /\ cursor' = 0
                /\ calls' = done
                /\ pc' = "idle"
                /\ result' = "True"
    /\ UNCHANGED <<device, op, inflight>>
    /\ UNCHANGED disc_vars

----------------------------------------------------------------------------
(* ImouDiscoverService.  disc_devices is the local dict devices, disc_order *)
(* the devices async_initialize has completed on, in the order it did.      *)

DiscoverIds == {"IPC1", "IPC2", "IPC3"}

\* entries of the deviceList of deviceBaseList: with a deviceId, or without
ListEntries == {[deviceId |-> id] : id \in DiscoverIds} \cup {[channels |-> "0"]}

RECURSIVE ListsUpTo(_)
\* the lists of at most n entries
ListsUpTo(n) ==
    IF n = 0 THEN {<<>>}
    ELSE LET shorter == ListsUpTo(n - 1)
         IN  shorter \cup {Append(l, e) : l \in shorter, e \in ListEntries}

\* responses of deviceBaseList
ListResponses ==
    {[count |-> Len(l), deviceList |-> l] : l \in ListsUpTo(MaxDevices)}
    \cup {[deviceList |-> <<[deviceId |-> "IPC1"]>>], [count |-> 0]}

\* responses of deviceBaseDetailList([id]) during a discovery
DiscoverDetailResponses(id) ==
    {[deviceList |-> <<DeviceData(id, n, "online", ab)>>] :
        n \in Names, ab \in {"WLAN", "motionDetect,closeCamera"}}
    \cup {[deviceList |-> <<>>],
          [deviceList |-> <<Without(DeviceData(id, "cam1", "online", "WLAN"), "ability")>>]}

\* a dict assignment that keeps an entry already present
dict_set_keep_first(devices, key, value) == devices @@ (key :> value)

\* devices[key] = value
dict_set(devices, key, value) == (key :> value) @@ devices

\* the body of the discovery loop from the entry number k: past the end the
\* dict is returned; an entry without deviceId raises KeyError; else a
\* device is constructed and its async_initialize awaited
discover_loop(list, k) ==
    IF k > Len(list)
    THEN /\ disc_result' = "dict"
         /\ disc_pc' = "idle"
         /\ disc_idx' = 0
    ELSE IF "deviceId" \notin DOMAIN list[k]
    THEN /\ disc_result' = "KeyError"
         /\ disc_pc' = "idle"
         /\ disc_idx' = 0
    ELSE /\ disc_result' = "pending"
         /\ disc_pc' = "await deviceBaseDetailList"
         /\ disc_idx' = k

\* the caller calls async_discover_devices
async_discover_devices_call ==
    /\ disc_pc = "idle"
    /\ disc_pc' = "await deviceBaseList"
    /\ disc_result' = "pending"
    /\ disc_list' = <<>>
    /\ disc_idx' = 0
    /\ disc_devices' = <<>>
    /\ disc_order' = <<>>
    /\ UNCHANGED disc_inflight
    /\ UNCHANGED device_vars

\* the API client returns devices_data
deviceBaseList_return(devices_data) ==
    /\ disc_pc = "await deviceBaseList"
    /\ disc_inflight' = devices_data
    /\ disc_pc' = "async_discover_devices"
    /\ UNCHANGED <<disc_list, disc_idx, disc_devices, disc_order, disc_result>>
    /\ UNCHANGED device_vars

\* async_discover_devices resumes with devices_data
async_discover_devices_resume ==
    /\ disc_pc = "async_discover_devices"
    /\ disc_inflight' = NoResponse
    /\ IF "deviceList" \notin DOMAIN disc_inflight \/ "count" \notin DOMAIN disc_inflight
       THEN /\ disc_result' = "InvalidResponse"
            /\ disc_pc' = "idle"
            /\ UNCHANGED <<disc_list, disc_idx>>
       ELSE /\ disc_list' = disc_inflight["deviceList"]
            /\ discover_loop(disc_inflight["deviceList"], 1)
    /\ UNCHANGED <<disc_devices, disc_order>>
    /\ UNCHANGED device_vars

\* the API client returns device_array to the async_initialize of the device
\* under construction
discover_deviceBaseDetailList_return ==
    /\ disc_pc = "await deviceBaseDetailList"
    /\ \E device_array \in DiscoverDetailResponses(disc_list[disc_idx]["deviceId"]) :
          disc_inflight' = device_array
    /\ disc_pc' = "device.async_initialize"
    /\ UNCHANGED <<disc_list, disc_idx, disc_devices, disc_order, disc_result>>
    /\ UNCHANGED device_vars

\* async_initialize of the new device resumes; when it raises the discovery
\* raises, else the device is stored under its name and the loop goes on
discover_initialize_resume ==
    /\ disc_pc = "device.async_initialize"
    /\ disc_inflight' = NoResponse
    /\ LET r == async_initialize_body(ImouDevice(disc_list[disc_idx]["deviceId"]),
                                      disc_inflight)
       IN  IF r.raised # "no"
           THEN /\ disc_result' = r.raised
                /\ disc_pc' = "idle"
                /\ disc_idx' = 0
                /\ UNCHANGED <<disc_devices, disc_order>>
           ELSE /\ disc_devices' = dict_set(disc_devices, get_name(r.dev), r.dev)
                /\ disc_order' = Append(disc_order, r.dev)
                /\ discover_loop(disc_list, disc_idx + 1)
    /\ UNCHANGED disc_list
    /\ UNCHANGED device_vars

InitDevice ==
    /\ device = ImouDevice(DeviceId)
    /\ pc = "idle"
    /\ op = "__init__"
    /\ calls = <<>>
    /\ inflight = NoResponse
    /\ result = "None"
    /\ cursor = 0

InitDiscover ==
    /\ disc_pc = "idle"
    /\ disc_list = <<>>
    /\ disc_idx = 0
    /\ disc_devices = <<>>
    /\ disc_order = <<>>
    /\ disc_inflight = NoResponse
    /\ disc_result = "None"

Init == InitDevice /\ InitDiscover

Next ==
    \/ \E value \in BOOLEAN : set_enabled(value)
    \/ \E given_name \in GivenNames : set_name(given_name)
    \/ async_initialize_call
    \/ \E device_array \in DetailResponses : deviceBaseDetailList_return(device_array)
    \/ async_initialize_resume
    \/ async_get_data_call
    \/ \E data \in OnlineResponses : deviceOnline_return(data)
    \/ async_get_data_resume
    \/ async_update_return

Spec == Init /\ [][Next]_vars

NextDiscover ==
    \/ async_discover_devices_call
    \/ \E devices_data \in ListResponses : deviceBaseList_return(devices_data)
    \/ async_discover_devices_resume
    \/ discover_deviceBaseDetailList_return
    \/ discover_initialize_resume

SpecDiscover == Init /\ [][NextDiscover]_vars

----------------------------------------------------------------------------
(* Properties of one device *)

\* the async_update calls and returns among the calls of the current call
Updates == SelectSeq(calls, LAMBDA c : c.call \in {"async_update", "async_update returned"})

\* the API requests among the calls of the current call
Requests == SelectSeq(calls, LAMBDA c : c.call \in {"deviceBaseDetailList", "deviceOnline"}
                                        /\ "returned" \notin DOMAIN c)

\* the entities of device d: every switch, then every sensor, then every
\* binary sensor, each list in insertion order
OwnedEntities(d) ==
    LET ns == Len(d._sensor_instances.switch)
        nv == Len(d._sensor_instances.sensor)
        nb == Len(d._sensor_instances.binary_sensor)
    IN  [i \in 1..(ns + nv + nb) |->
            IF i <= ns THEN [platform |-> "switch", index |-> i]
            ELSE IF i <= ns + nv THEN [platform |-> "sensor", index |-> i - ns]
            ELSE [platform |-> "binary_sensor", index |-> i - ns - nv]]

\* one async_update per entity of d, each returned before the next is called
SequentialUpdates(d) ==
    LET es == OwnedEntities(d)
    IN  [k \in 1..(2 * Len(es)) |->
            IF k % 2 = 1
            THEN [call |-> "async_update",
                  platform |-> es[(k + 1) \div 2].platform, index |-> es[(k + 1) \div 2].index]
            ELSE [call |-> "async_update returned",
                  platform |-> es[k \div 2].platform, index |-> es[k \div 2].index]]

IsPrefix(a, b) == Len(a) <= Len(b) /\ SubSeq(b, 1, Len(a)) = a

\* C1: async_get_data on a disabled device returns False, calls nothing on
\* the API client or the entities, and changes no field of the device,
\* initialized or not.
C1_DisabledGetDataIsNoOp ==
    [][(pc = "idle" /\ op' = "async_get_data" /\ ~device._enabled)
        => /\ result' = "False"
           /\ pc' = "idle"
           /\ calls' = <<>>
           /\ device' = device]_vars

C1_Witness ==
    /\ op = "async_get_data"
    /\ result = "False"
    /\ ~device._enabled
    /\ device._initialized
    /\ Len(device._sensor_instances.switch) > 0

\* the deviceOnline response of the current async_get_data call is in
C2_OnlineReturned ==
    /\ op = "async_get_data"
    /\ \E i \in 1..Len(calls) : calls[i].call = "deviceOnline" /\ "returned" \in DOMAIN calls[i]

C2_OnlineData ==
    calls[CHOOSE i \in 1..Len(calls) :
              calls[i].call = "deviceOnline" /\ "returned" \in DOMAIN calls[i]].returned

\* C2: in an async_get_data call whose deviceOnline response has onLine "1",
\* async_update runs once on every entity, switches then sensors then binary
\* sensors in insertion order, one after the other, and the call returns
\* True; with another onLine value no async_update runs and the call
\* returns True.
C2_UpdatesEveryEntityInOrder ==
    (C2_OnlineReturned /\ "onLine" \in DOMAIN C2_OnlineData)
    => IF C2_OnlineData["onLine"] = "1"
       THEN /\ IsPrefix(Updates, SequentialUpdates(device))
            /\ pc = "idle" => (result = "True" /\ Updates = SequentialUpdates(device))
            /\ pc = "await async_update" => Len(Updates) % 2 = 1
       ELSE /\ Updates = <<>>
            /\ pc \in {"idle", "async_get_data"}
            /\ pc = "idle" => result = "True"

C2_Witness ==
    /\ C2_OnlineReturned
    /\ C2_OnlineData = [onLine |-> "1"]
    /\ pc = "idle"
    /\ result = "True"
    /\ Len(device._sensor_instances.switch) >= 2
    /\ Len(Updates) = 2 * (Len(device._sensor_instances.switch) + 2)

\* C3: async_initialize raises InvalidResponse when the response has no
\* deviceList, or a deviceList of zero or of two or more entries, and then
\* the device is left as it was, the initialized flag included.
C3_BadDeviceListRaises ==
    [][(/\ pc = "async_initialize"
        /\ \/ "deviceList" \notin DOMAIN inflight
           \/ Len(inflight["deviceList"]) = 0
           \/ Len(inflight["deviceList"]) >= 2)
        => /\ result' = "InvalidResponse"
           /\ pc' = "idle"
           /\ device' = device]_vars

C3_Witness ==
    /\ op = "async_initialize"
    /\ pc = "idle"
    /\ result = "InvalidResponse"
    /\ "deviceList" \in DOMAIN inflight
    /\ Len(inflight["deviceList"]) = 2
    /\ device._initialized

\* the response under inflight is a deviceList of exactly one entry
SingleEntry == "deviceList" \in DOMAIN inflight /\ Len(inflight["deviceList"]) = 1

\* that entry carries the six fields async_initialize reads
CompleteEntry ==
    /\ SingleEntry
    /\ {"catalog", "version", "name", "deviceModel", "status", "ability"}
          \subseteq DOMAIN inflight["deviceList"][1]

\* C4 as stated: a single entry whose deviceId is not the device's own makes
\* async_initialize raise InvalidResponse and leaves the device unpopulated.
C4_ForeignEntryRaises ==
    [][(/\ pc = "async_initialize"
        /\ SingleEntry
        /\ "deviceId" \in DOMAIN inflight["deviceList"][1]
        /\ inflight["deviceList"][1]["deviceId"] # device._device_id)
        => /\ result' = "InvalidResponse"
           /\ device' = device]_vars

\* C4 amended: the deviceId of the single entry is not compared with the
\* device's own; a single entry that carries the six fields read populates
\* the device and async_initialize succeeds, whatever its deviceId.
C4_SingleEntryPopulates ==
    [][(pc = "async_initialize" /\ CompleteEntry)
        => LET e == inflight["deviceList"][1]
           IN  /\ result' # "InvalidResponse"
               /\ device'._initialized
               /\ device'._catalog = e["catalog"]
               /\ device'._firmware = e["version"]
               /\ device'._name = e["name"]
               /\ device'._device_model = e["deviceModel"]
               /\ device'._online = (e["status"] = "online")
               /\ device'._device_id = device._device_id]_vars

C4_Witness ==
    /\ op = "async_initialize"
    /\ pc = "idle"
    /\ result = "None"
    /\ CompleteEntry
    /\ inflight["deviceList"][1]["deviceId"] = OtherDeviceId
    /\ device._device_id = DeviceId
    /\ device._name = inflight["deviceList"][1]["name"]
    /\ device._initialized

\* the capability names of a list of entities
EntityNames(entities) == [i \in 1..Len(entities) |-> entities[i].name]

\* C5: a successful async_initialize creates, in table order, one switch
\* entity for each switch type of the known-switch table that some string of
\* the capability list equals case-insensitively, and no other switch entity,
\* however many capability strings match a type.
C5_OneSwitchPerMatchingType ==
    [][(pc = "async_initialize" /\ result' # "InvalidResponse")
        => LET old == device._sensor_instances.switch
               new == device'._sensor_instances.switch
               caps == device'._capabilities
               matching == SelectSeq(IMOU_SWITCHES_keys,
                              LAMBDA t : \E i \in 1..Len(caps) : lower(t) = lower(caps[i]))
           IN  /\ IsPrefix(old, new)
               /\ EntityNames(SubSeq(new, Len(old) + 1, Len(new))) = matching]_vars

C5_Witness ==
    /\ op = "async_initialize"
    /\ pc = "idle"
    /\ result = "None"
    /\ CompleteEntry
    /\ inflight["deviceList"][1]["ability"] = "CloseCamera,closecamera,WLAN"
    /\ device._capabilities = <<"CloseCamera", "closecamera", "WLAN", "motionDetect">>
    /\ EntityNames(device._sensor_instances.switch) = <<"motionDetect", "closeCamera">>

\* C6: once async_initialize has succeeded the capability list contains
\* "motionDetect", whatever ability string was reported, and it does so in
\* every later state.
C6_MotionDetectPresent ==
    device._initialized => Contains(device._capabilities, "motionDetect")

C6_Witness ==
    /\ op = "async_get_data"
    /\ result = "True"
    /\ device._initialized
    /\ device._capabilities = <<"", "motionDetect">>

\* C7: within a category no two entities of the device have the same
\* capability name; an initialized device has exactly one "lastAlarm" sensor
\* and exactly one "online" binary sensor.
C7_NoDuplicateEntities ==
    /\ \A p \in {"switch", "sensor", "binary_sensor"} :
          \A i, j \in 1..Len(device._sensor_instances[p]) :
              i # j => device._sensor_instances[p][i].name # device._sensor_instances[p][j].name
    /\ device._initialized
          => /\ EntityNames(device._sensor_instances.sensor) = <<"lastAlarm">>
             /\ EntityNames(device._sensor_instances.binary_sensor) = <<"online">>

\* C8: the initialized flag is false at construction, turns true only when
\* an async_initialize completes without raising, and never turns false
\* again; set_enabled changes the enabled flag and nothing else.
C8_InitializedOneWay ==
    /\ ~device._initialized
    /\ [][/\ (device'._initialized # device._initialized)
               => /\ ~device._initialized
                  /\ pc = "async_initialize"
                  /\ result' # "InvalidResponse"
          /\ (pc = "idle" /\ op' = "set_enabled")
               => \E value \in BOOLEAN : device' = [device EXCEPT !._enabled = value]]_vars

C8_Witness ==
    /\ op = "async_initialize"
    /\ result = "InvalidResponse"
    /\ device._initialized
    /\ ~device._enabled

\* C10: an async_get_data call on an enabled device requests
\* deviceBaseDetailList exactly when the device is not initialized at the
\* start, and before any deviceOnline request; when that initialization
\* fails the call raises, requests no deviceOnline and updates no entity; a
\* call on an initialized device adds no entity.
C10_LazyInitialize ==
    [][/\ (pc = "idle" /\ op' = "async_get_data" /\ device._enabled)
            => IF device._initialized
               THEN calls' = <<Request("deviceOnline")>>
               ELSE calls' = <<Request("deviceBaseDetailList")>>
       /\ (pc # "idle" /\ op' = "async_get_data")
            => Requests' \in {Requests, Append(Requests, Request("deviceOnline"))}
       /\ (op' = "async_get_data" /\ Contains(calls', Request("deviceOnline")))
            => device'._initialized
       /\ (pc = "async_initialize" /\ op = "async_get_data" /\ ~device'._initialized)
            => /\ result' = "InvalidResponse"
               /\ pc' = "idle"
               /\ calls' = <<Request("deviceBaseDetailList")>>
       /\ (op' = "async_get_data" /\ device._initialized)
            => device'._sensor_instances = device._sensor_instances]_vars

C10_Witness ==
    /\ op = "async_get_data"
    /\ pc = "idle"
    /\ result = "True"
    /\ Requests = <<Request("deviceBaseDetailList"), Request("deviceOnline")>>
    /\ Len(Updates) > 0

----------------------------------------------------------------------------
(* Properties of the discovery *)

\* the last device initialized under the display name n
LastNamed(n) ==
    disc_order[CHOOSE i \in 1..Len(disc_order) :
                  /\ get_name(disc_order[i]) = n
                  /\ \A j \in (i + 1)..Len(disc_order) : get_name(disc_order[j]) # n]

\* C9: async_discover_devices initializes the devices in the order of the
\* API response, one at a time, and returns one entry per distinct display
\* name, the entry of a name being the last device of the response with it.
C9_LastDeviceWinsName ==
    /\ Len(disc_order) <= Len(disc_list)
    /\ \A i \in 1..Len(disc_order) : disc_order[i]._device_id = disc_list[i]["deviceId"]
    /\ disc_pc = "await deviceBaseDetailList" => disc_idx = Len(disc_order) + 1
    /\ disc_result = "dict"
          => /\ Len(disc_order) = Len(disc_list)
             /\ DOMAIN disc_devices = {get_name(disc_order[i]) : i \in 1..Len(disc_order)}
             /\ \A n \in DOMAIN disc_devices : disc_devices[n] = LastNamed(n)

C9_Witness ==
    /\ disc_result = "dict"
    /\ Len(disc_order) = 3
    /\ get_name(disc_order[1]) = get_name(disc_order[3])
    /\ get_name(disc_order[2]) # get_name(disc_order[1])
    /\ disc_order[1]._device_id # disc_order[3]._device_id
    /\ Cardinality(DOMAIN disc_devices) = 2
    /\ disc_devices[get_name(disc_order[1])]._device_id = disc_order[3]._device_id

====
